---- MODULE Spec2Model ----
(***************************************************************************)
(* Model of the DynamoDB adapter: the record/key validator, the timestamp  *)
(* policy and the operations built from them, run against a model of the   *)
(* storage backend (a table addressed by partition and sort attribute).    *)
(*                                                                         *)
(* JavaScript values are tagged: [type, val].  A string is named by a      *)
(* natural number that stands for its rank in lexicographic order, 0 being *)
(* the empty string, so that `>` on two ISO timestamps is `>` on the codes.*)
(* An object is a function from the names of the fields it has to values.  *)
(* The order of the fields of an object is abstracted to one fixed order   *)
(* (FieldOrder).                                                           *)
(***************************************************************************)
EXTENDS Integers, Sequences, FiniteSets, TLC

\* ---------------------------------------------------------------- bounds
MaxClock == 2
MaxBatch == 2
MaxUnprocessed == 1
MaxPages == 3
MaxStored == 4
MaxCalls == 2
MaxPageSize == 2

\* ------------------------------------------------------ program constants
DEFAULT_PARTITION_KEY == "id"
DEFAULT_SORT_KEY == "sk"
DEFAULT_GSI_NAME == "gsiBySk"
DYNAMODB_BATCH_WRITE_LIMIT == 25
DYNAMODB_BATCH_GET_LIMIT == 100

\* deps.partitionKey / deps.sortKey / deps.gsiName after mergeWithDefaults of a
\* config that names only the table.
partitionKey == DEFAULT_PARTITION_KEY
sortKey == DEFAULT_SORT_KEY
gsiName == DEFAULT_GSI_NAME

\* ------------------------------------------------------------------ values
Str(n) == [type |-> "string", val |-> n]
Num(n) == [type |-> "number", val |-> n]
Bool(b) == [type |-> "boolean", val |-> IF b THEN 1 ELSE 0]
Null == [type |-> "null", val |-> 0]
Undefined == [type |-> "undefined", val |-> 0]

\* JavaScript truthiness, as used by `a || b`.
Truthy(v) ==
  CASE v.type = "string" -> v.val # 0
    [] v.type = "number" -> v.val # 0
    [] v.type = "boolean" -> v.val = 1
    [] v.type = "object" -> TRUE
    [] OTHER -> FALSE

FieldOrder == <<"id", "sk", "name", "createdAt", "updatedAt">>
Fields == {FieldOrder[i] : i \in 1..Len(FieldOrder)}

EmptyObject == [f \in {} |-> Null]
Has(o, f) == f \in DOMAIN o
Restrict(o, D) == [f \in (DOMAIN o) \cap D |-> o[f]]
Without(o, D) == [f \in (DOMAIN o) \ D |-> o[f]]
\* { ...o, [f]: v }
With(o, f, v) == [g \in (DOMAIN o) \cup {f} |-> IF g = f THEN v ELSE o[g]]
\* { ...a, ...b }
Spread(a, b) == [g \in (DOMAIN a) \cup (DOMAIN b) |-> IF g \in DOMAIN b THEN b[g] ELSE a[g]]
\* Object.keys / Object.entries order
KeysOf(o) == SelectSeq(FieldOrder, LAMBDA f : f \in DOMAIN o)

\* ------------------------------------------------------------- validation
\* z.string().min(1)
IsNonEmptyString(o, f) == Has(o, f) /\ o[f].type = "string" /\ o[f].val >= 1
\* z.union([z.string(), z.number()])
IsStringOrNumber(v) == v.type \in {"string", "number"}

NoError == [batch |-> "none", index |-> -1, what |-> "none", fields |-> <<>>]
ValidationFailed(what, fields) ==
  [batch |-> "none", index |-> -1, what |-> what, fields |-> fields]
\* `Validation failed for <batch> at index <i>: <message of the item validator>`
AtIndex(batch, i, err) == [err EXCEPT !.batch = batch, !.index = i]

Accept(v) == [ok |-> TRUE, value |-> v, error |-> NoError]
Reject(e) == [ok |-> FALSE, value |-> EmptyObject, error |-> e]

\* z.object({[pk]: string.min(1), [sk]: string.min(1)}): the paths of the issues
ShapeIssues(o) ==
  SelectSeq(<<partitionKey, sortKey>>, LAMBDA f : ~IsNonEmptyString(o, f))

\* keySchema = z.object(shape).catchall(z.union([z.string(), z.number()]))
createKeySchema(o) ==
  ShapeIssues(o) \o
  SelectSeq(KeysOf(o), LAMBDA f : f \notin {partitionKey, sortKey} /\ ~IsStringOrNumber(o[f]))

\* recordSchema = z.object(shape).passthrough()
createRecordSchema(o) == ShapeIssues(o)

validateCreateRecord(record) ==
  IF createRecordSchema(record) = <<>>
    THEN Accept(record)
    ELSE Reject(ValidationFailed("create record", createRecordSchema(record)))

validateKeys(keys) ==
  IF createKeySchema(keys) = <<>>
    THEN Accept(Restrict(keys, {partitionKey, sortKey}))
    ELSE Reject(ValidationFailed("keys", createKeySchema(keys)))

validateUpdateRecord(record) ==
  IF createRecordSchema(record) = <<>>
    THEN Accept(record)
    ELSE Reject(ValidationFailed("update record", createRecordSchema(record)))

\* A patch request is [keys, updates]; so is the validated request.
validatePatchUpdates(keys, updates) ==
  LET validatedKeys == validateKeys(keys) IN
  IF ~validatedKeys.ok THEN Reject(validatedKeys.error)
  ELSE Accept([keys |-> validatedKeys.value,
               updates |-> Without(updates, {partitionKey, sortKey})])

validatePatchRequest(update) == validatePatchUpdates(update.keys, update.updates)

\* The single-item validator that each batch validator maps over its list.
ValidateItem(batch, item) ==
  IF batch = "record" THEN validateCreateRecord(item)
  ELSE IF batch = "keys" THEN validateKeys(item)
  ELSE validatePatchRequest(item)

\* Array.prototype.map with a callback that throws: the elements are visited
\* in index order and the first throw ends the map.
MapValidate(batch, items, i) ==
  LET throwing == {j \in i..Len(items) : ~ValidateItem(batch, items[j]).ok} IN
  IF throwing = {}
    THEN [ok |-> TRUE, error |-> NoError,
          value |-> [j \in 1..(Len(items) - i + 1) |-> ValidateItem(batch, items[j + i - 1]).value]]
  ELSE LET first == CHOOSE j \in throwing : \A k \in throwing : j <= k IN
    [ok |-> FALSE, value |-> <<>>,
     error |-> AtIndex(batch, first - 1, ValidateItem(batch, items[first]).error)]

validateBatchRecords(records) == MapValidate("record", records, 1)

\* Faulty variant: the map runs to the end and the last failure is the one reported.
RECURSIVE MapValidateLast(_, _, _)
MapValidateLast(batch, items, i) ==
  IF i > Len(items) THEN [ok |-> TRUE, value |-> <<>>, error |-> NoError]
  ELSE LET r == ValidateItem(batch, items[i])
           rest == MapValidateLast(batch, items, i + 1)
       IN IF ~rest.ok THEN rest
          ELSE IF ~r.ok THEN [ok |-> FALSE, value |-> <<>>, error |-> AtIndex(batch, i - 1, r.error)]
          ELSE [rest EXCEPT !.value = <<r.value>> \o rest.value]
validateBatchKeys_reportsLast(keysList) == MapValidateLast("keys", keysList, 1)

validateBatchKeys(keysList) == MapValidate("keys", keysList, 1)

validateBatchPatchUpdates(updates) == MapValidate("patch", updates, 1)

\* -------------------------------------------------------------- timestamps
\* new Date(t).toISOString(): the string that names the instant t
toISOString(t) == Str(t)

\* record.f || timestamp
OrElse(record, f, timestamp) ==
  IF Has(record, f) /\ Truthy(record[f]) THEN record[f] ELSE timestamp

\* Faulty variant: the two fields are decided together, on createdAt alone.
addTimestampsIfMissing_together(record, now) ==
  IF Has(record, "createdAt") /\ Truthy(record.createdAt) THEN record
  ELSE With(With(record, "createdAt", toISOString(now)), "updatedAt", toISOString(now))

\* Faulty variant: the clock is read once per field.
addTimestampsIfMissing_twoReadings(record, now) ==
  With(With(record, "createdAt", OrElse(record, "createdAt", toISOString(now))),
       "updatedAt", OrElse(record, "updatedAt", toISOString(now + 1)))

addTimestampsIfMissing(record, now) ==
  LET timestamp == toISOString(now) IN
  With(With(record, "createdAt", OrElse(record, "createdAt", timestamp)),
       "updatedAt", OrElse(record, "updatedAt", timestamp))

\* Faulty variant: an updatedAt that the record already has is kept.
updateTimestamp_keepsExisting(record, now) ==
  With(record, "updatedAt", OrElse(record, "updatedAt", toISOString(now)))

updateTimestamp(record, now) == With(record, "updatedAt", toISOString(now))

\* ----------------------------------------------------------------- backend
\* The table: the set of stored items, at most one per (partition, sort) pair.
ItemKey(item) == Restrict(item, {partitionKey, sortKey})
Lookup(tbl, key) == {it \in tbl : ItemKey(it) = key}
PutItem(tbl, item) == (tbl \ Lookup(tbl, ItemKey(item))) \cup {item}
DeleteItem(tbl, key) == tbl \ Lookup(tbl, key)

NoCommand(cmd) ==
  [cmd |-> cmd, Key |-> EmptyObject, Item |-> EmptyObject,
   Names |-> [i \in {} |-> ""], Values |-> [i \in {} |-> Null], Requests |-> <<>>,
   IndexName |-> "", ExclusiveStartKey |-> Undefined]
PutCommand(item) == [NoCommand("Put") EXCEPT !.Item = item]
GetCommand(key) == [NoCommand("Get") EXCEPT !.Key = key]
DeleteCommand(key) == [NoCommand("Delete") EXCEPT !.Key = key]
\* UpdateExpression `SET #attr<i> = :val<i>, ...`: one part per index of Names
UpdateCommand(key, names, values) ==
  [NoCommand("Update") EXCEPT !.Key = key, !.Names = names, !.Values = values]
\* KeyConditionExpression `#sk = :sk` on the index.
QueryCommand(index, name, value, start) ==
  [NoCommand("Query") EXCEPT !.IndexName = index, !.Names = 0 :> name,
                             !.Values = 0 :> value, !.ExclusiveStartKey = start]
ScanCommand(start) == [NoCommand("Scan") EXCEPT !.ExclusiveStartKey = start]
BatchWriteCommand(requests) == [NoCommand("BatchWrite") EXCEPT !.Requests = requests]
BatchGetCommand(keys) == [NoCommand("BatchGet") EXCEPT !.Requests = keys]

\* UpdateItem refuses an expression with no SET part and one that assigns a
\* key attribute; otherwise it writes the named attributes into the item under
\* Key, creating the item when there is none (ReturnValues ALL_NEW).
UpdateAccepted(c) ==
  /\ DOMAIN c.Names # {}
  /\ \A i \in DOMAIN c.Names : c.Names[i] \notin {partitionKey, sortKey}
UpdatedItem(tbl, c) ==
  LET old == IF Lookup(tbl, c.Key) = {} THEN c.Key ELSE CHOOSE it \in Lookup(tbl, c.Key) : TRUE
      set == {c.Names[i] : i \in DOMAIN c.Names}
  IN [f \in (DOMAIN old) \cup set |->
        IF f \in set THEN c.Values[CHOOSE i \in DOMAIN c.Names : c.Names[i] = f] ELSE old[f]]

\* What the backend answers to a command: it throws `error`, or it answers and
\* reports the requests in `unprocessed` as not done.
ServiceError(name) == [batch |-> "none", index |-> -1, what |-> name, fields |-> <<>>]
Processed ==
  [throws |-> FALSE, error |-> NoError, unprocessed |-> <<>>,
   Items |-> <<>>, LastEvaluatedKey |-> Undefined]
Unprocessed(requests) == [Processed EXCEPT !.unprocessed = requests]
Throws(name) == [Processed EXCEPT !.throws = TRUE, !.error = ServiceError(name)]
\* One page of a Query or a Scan: its items and the cursor of the next page.
Page(items, cursor) == [Processed EXCEPT !.Items = items, !.LastEvaluatedKey = cursor]

\* BatchWriteItem / BatchGetItem refuse a request that names one key twice.
RequestKey(r) == IF r.kind = "PutRequest" THEN ItemKey(r.obj) ELSE r.obj
DistinctKeys(keys) == Cardinality({keys[i] : i \in 1..Len(keys)}) = Len(keys)
\* The requests of one batch name different keys, so their order does not matter.
ApplyWrites(tbl, requests) ==
  LET named == {RequestKey(requests[i]) : i \in 1..Len(requests)}
      put == {requests[i].obj : i \in {j \in 1..Len(requests) : requests[j].kind = "PutRequest"}}
  IN {it \in tbl : ItemKey(it) \notin named} \cup put

\* -------------------------------------------------------------------- state
VARIABLES
  table,    \* the stored items
  clock,    \* what new Date() reads
  call,     \* the operation last called and its arguments
  outcome,  \* "none", "ok", "validation_error", "backend_error"
  result,   \* what the call resolved to
  error,    \* what the call rejected with
  sent,     \* the backend commands the call issued, in order
  replies,  \* what the backend answered to them, in the same order
  log,      \* the logger calls of the call, in order
  inflight, \* commands issued to the backend that it has not served yet
  backend,  \* the client the adapter was built on: "reliable" or "faulty"
  calls,    \* the calls that run side by side, each with its own locals
  deps,     \* config.deps of the adapter
  held      \* the objects the caller passed to the call, as the call left them

vars ==
  <<table, clock, call, outcome, result, error, sent, replies, log, inflight, backend,
    calls, deps, held>>

\* logger.<level>(message, {..., count})
Log(level, count) == [level |-> level, count |-> count]
NoCount == -1

NoArgs == [index |-> "", sk |-> Undefined]
NoCall == [op |-> "idle", keys |-> <<>>, records |-> <<>>, args |-> NoArgs]
NoResult == [kind |-> "none", items |-> <<>>]
Void == [kind |-> "void", items |-> <<>>]
NullResult == [kind |-> "null", items |-> <<>>]
RecordResult(r) == [kind |-> "record", items |-> <<r>>]
ListResult(rs) == [kind |-> "list", items |-> rs]

Idle == call.op = "idle"

\* The locals of one running call: what it was called with, where it stands
\* ("idle", "awaiting" a backend answer, or settled), the commands it has in
\* flight, its chunk list, its accumulator and its cursor.
NoFrame ==
  [call |-> NoCall, pc |-> "idle", awaiting |-> <<>>, batches |-> <<>>,
   recordsWithTimestamps |-> <<>>, items |-> <<>>, lastEvaluatedKey |-> Undefined,
   sent |-> <<>>, replies |-> <<>>, result |-> NoResult, error |-> NoError]
NoCalls == [id \in 1..MaxCalls |-> NoFrame]

\* const deps = {tableName, partitionKey, sortKey, gsiName}
tableName == "records"
createAdapter ==
  [tableName |-> tableName, partitionKey |-> partitionKey, sortKey |-> sortKey,
   gsiName |-> gsiName]

Init ==
  /\ table = {}
  /\ clock = 1
  /\ call = NoCall
  /\ outcome = "none"
  /\ result = NoResult
  /\ error = NoError
  /\ sent = <<>>
  /\ replies = <<>>
  /\ log = <<>>
  /\ inflight = <<>>
  /\ backend = "reliable"
  /\ calls = NoCalls
  /\ deps = createAdapter
  /\ held = <<>>

\* The call ends: c is the call, cmds the commands it sent, rps the answers it
\* got, lg its logger calls, tbl the table it leaves.
\* ------------------------------------------------------ objects and copies
\* The objects of a call by reference: heap[ref] is what the object holds.
\* The objects the caller passed come first, in the order passed (keys before
\* updates, request by request); a literal or a spread makes a new object.
New(heap, o) == Append(heap, o)

\* schema.parse(record) hands back an object of its own.
parse(heap, ref) == [heap |-> New(heap, heap[ref]), ref |-> Len(heap) + 1]
\* const result = {[pk]: validated[pk], [sk]: validated[sk]}
validateKeysAt(heap, ref) ==
  [heap |-> New(heap, Restrict(heap[ref], {partitionKey, sortKey})), ref |-> Len(heap) + 1]
\* ({...record, updatedAt: ...})
updateTimestampAt(heap, ref, now) ==
  [heap |-> New(heap, updateTimestamp(heap[ref], now)), ref |-> Len(heap) + 1]

\* Faulty variant: cleanedUpdates is the updates object itself, not a copy.
validatePatchUpdatesAt_deletesInPlace(heap, keys, updates) ==
  LET validatedKeys == validateKeysAt(heap, keys) IN
  [heap |-> [validatedKeys.heap EXCEPT ![updates] = Without(@, {partitionKey, sortKey})],
   keys |-> validatedKeys.ref, updates |-> updates]

\* const cleanedUpdates = {...updates}; delete cleanedUpdates[pk]; delete cleanedUpdates[sk]
validatePatchUpdatesAt(heap, keys, updates) ==
  LET validatedKeys == validateKeysAt(heap, keys)
      copied == New(validatedKeys.heap, validatedKeys.heap[updates])
      cleanedUpdates == Len(copied)
  IN [heap |-> [copied EXCEPT ![cleanedUpdates] = Without(@, {partitionKey, sortKey})],
      keys |-> validatedKeys.ref, updates |-> cleanedUpdates]

\* patchOne on the objects keys and updates, up to the command it sends.
patchOneAt(heap, keys, updates, now) ==
  LET validated == validatePatchUpdatesAt(heap, keys, updates)
  IN updateTimestampAt(validated.heap, validated.updates, now).heap

\* records.map(validate) and then .map(stamp): element by element, in
\* order, each element getting an object of its own.
EachAt(heap, step, refs, now) ==
  [heap |-> heap \o [j \in 1..Len(refs) |->
                       IF step = "parse" THEN heap[refs[j]]
                       ELSE addTimestampsIfMissing(heap[refs[j]], now)],
   refs |-> [j \in 1..Len(refs) |-> Len(heap) + j]]

\* validateBatchPatchUpdates over requests i..n: the map stops at the first
\* request whose keys are refused; request i has its keys at 2i - 1 and its
\* updates at 2i.
RECURSIVE ValidateRequestsAt(_, _, _)
ValidateRequestsAt(heap, i, n) ==
  IF i > n THEN [heap |-> heap, ok |-> TRUE, requests |-> <<>>]
  ELSE IF ~validateKeys(heap[2 * i - 1]).ok THEN [heap |-> heap, ok |-> FALSE, requests |-> <<>>]
  ELSE LET one == validatePatchUpdatesAt(heap, 2 * i - 1, 2 * i)
           rest == ValidateRequestsAt(one.heap, i + 1, n)
       IN [rest EXCEPT !.requests = <<[keys |-> one.keys, updates |-> one.updates]>> \o @]
RECURSIVE PatchEachAt(_, _, _)
PatchEachAt(heap, requests, now) ==
  IF requests = <<>> THEN heap
  ELSE PatchEachAt(patchOneAt(heap, Head(requests).keys, Head(requests).updates, now),
                   Tail(requests), now)

\* The objects the caller passed to call c, in the order passed.
Passed(c) ==
  IF c.op \in {"createOne", "replaceOne", "createMany"} THEN c.records
  ELSE IF c.op \in {"patchOne", "patchMany"}
    THEN [j \in 1..(2 * Len(c.keys)) |->
            IF j % 2 = 1 THEN c.keys[(j + 1) \div 2] ELSE c.records[j \div 2]]
  ELSE <<>>

\* The heap when call c has run as far as its backend command (no code
\* after it handles the objects): the validator first, which throws before
\* anything else is done, then the copies with the timestamps.
HeapAfter(c, now) ==
  LET heap == Passed(c)
      refs == [j \in 1..Len(heap) |-> j]
  IN IF c.op = "createOne" \/ c.op = "createMany"
       THEN IF ~(IF c.op = "createOne" THEN validateCreateRecord(c.records[1])
                 ELSE validateBatchRecords(c.records)).ok THEN heap
            ELSE LET validated == EachAt(heap, "parse", refs, now)
                 IN EachAt(validated.heap, "stamp", validated.refs, now).heap
     ELSE IF c.op = "replaceOne"
       THEN IF ~validateUpdateRecord(c.records[1]).ok THEN heap
            ELSE updateTimestampAt(parse(heap, 1).heap, parse(heap, 1).ref, now).heap
     ELSE IF c.op = "patchOne"
       THEN IF ~validateKeys(c.keys[1]).ok THEN heap ELSE patchOneAt(heap, 1, 2, now)
     ELSE IF c.op = "patchMany"
       THEN LET validated == ValidateRequestsAt(heap, 1, Len(c.keys))
            IN IF ~validated.ok THEN validated.heap
               ELSE PatchEachAt(validated.heap, validated.requests, now)
     ELSE heap

Finish(c, out, res, err, cmds, rps, lg, tbl) ==
  /\ call' = c /\ outcome' = out /\ result' = res /\ error' = err
  /\ sent' = cmds /\ replies' = rps /\ log' = lg /\ table' = tbl
  /\ held' = SubSeq(HeapAfter(c, clock), 1, Len(Passed(c)))
  /\ UNCHANGED <<clock, backend, calls, deps>>
AllProcessed(cmds) == [i \in 1..Len(cmds) |-> Processed]
FailsAtLast(cmds, err) ==
  [i \in 1..Len(cmds) |-> IF i = Len(cmds) THEN Throws(err.what) ELSE Processed]
\* A call that logs debug before its commands and info after them.
Resolve(c, res, cmds, tbl) ==
  /\ Finish(c, "ok", res, NoError, cmds, AllProcessed(cmds),
            <<Log("debug", NoCount), Log("info", NoCount)>>, tbl)
  /\ UNCHANGED inflight
\* The validator throws before anything is logged or sent.
RejectValidation(c, err) ==
  /\ Finish(c, "validation_error", NoResult, err, <<>>, <<>>, <<>>, table)
  /\ UNCHANGED inflight
\* The last command of cmds throws err; the call logged debug before sending.
RejectBackend(c, err, cmds, tbl) ==
  /\ Finish(c, "backend_error", NoResult, err, cmds, FailsAtLast(cmds, err),
            <<Log("debug", NoCount)>>, tbl)
  /\ UNCHANGED inflight

\* ------------------------------------------------------------------- inputs
Opt(f, V) == {EmptyObject} \cup {f :> v : v \in V}
Objs(A, B) == {Spread(a, b) : a \in A, b \in B}
Lists(S, n) == UNION {[1..k -> S] : k \in 0..n}

CustomTimestamp == Str(MaxClock + 7)
Key1 == (partitionKey :> Str(1)) @@ (sortKey :> Str(1))
Key2 == (partitionKey :> Str(2)) @@ (sortKey :> Str(1))
BadKeys ==
  {Spread(Key1, b) : b \in {partitionKey :> Str(0), partitionKey :> Num(1),
                            sortKey :> Str(0), sortKey :> Num(1)}}
  \cup {Without(Key1, {partitionKey}), Without(Key1, {sortKey}), EmptyObject}
KeyExtras == {EmptyObject, "name" :> Str(2), "name" :> Bool(TRUE), "updatedAt" :> CustomTimestamp}
KeyInputs ==
  Objs({Key1}, KeyExtras) \cup {Key2} \cup BadKeys
  \cup {Spread(Spread(Key1, partitionKey :> Num(1)), "name" :> Str(2))}

TimestampInputs == {Undefined, Null, Str(0), Num(0), Bool(FALSE), CustomTimestamp}
CreateInputs ==
  Objs(Objs({Key1}, Opt("createdAt", TimestampInputs)), Opt("updatedAt", TimestampInputs))
  \cup Objs({Key1}, {"name" :> Str(1)})
  \cup Objs(BadKeys, {"name" :> Str(1)})

ReplaceInputs ==
  Objs(Objs(Objs({Key1}, Opt("name", {Str(1)})), Opt("createdAt", {CustomTimestamp})),
       Opt("updatedAt", {CustomTimestamp}))
  \cup Objs(BadKeys, {"name" :> Str(1)})

PatchKeyInputs ==
  {Key1, Spread(Key1, "name" :> Str(2)), Spread(Key1, "updatedAt" :> CustomTimestamp),
   Without(Key1, {partitionKey}), Spread(Key1, partitionKey :> Num(1))}
UpdateInputs ==
  Objs(Objs(Opt(partitionKey, {Str(1), Str(2)}), Opt(sortKey, {Str(2)})), Opt("name", {Str(1)}))
  \cup {"updatedAt" :> CustomTimestamp, ("name" :> Str(1)) @@ ("updatedAt" :> CustomTimestamp)}
PatchOneInputs ==
  {[keys |-> Key1, updates |-> u] : u \in UpdateInputs}
  \cup {[keys |-> k, updates |-> u] :
          k \in PatchKeyInputs, u \in {EmptyObject, "name" :> Str(1), "updatedAt" :> CustomTimestamp}}

\* The second key is stored by the batch create only, with both timestamps supplied.
CreateManyInputs ==
  Lists({Key1, Spread(Key1, "createdAt" :> CustomTimestamp),
         Spread(Key2, ("createdAt" :> CustomTimestamp) @@ ("updatedAt" :> CustomTimestamp)),
         Without(Key1, {partitionKey})}, MaxBatch)
KeyListInputs ==
  Lists({Key1, Key2, Without(Key1, {partitionKey}), Spread(Key1, sortKey :> Num(1))}, MaxBatch)
PatchManyInputs ==
  Lists({[keys |-> Key1, updates |-> "name" :> Str(1)],
         [keys |-> Spread(Key1, "name" :> Str(2)),
          updates |-> (partitionKey :> Str(2)) @@ ("name" :> Str(1))],
         [keys |-> Without(Key1, {sortKey}), updates |-> "name" :> Str(1)]}, MaxBatch)

\* --------------------------------------------------------------- operations
createCreateOneRecord(record) ==
  LET c == [op |-> "createOne", keys |-> <<>>, records |-> <<record>>, args |-> NoArgs]
      validatedRecord == validateCreateRecord(record)
      recordWithTimestamps == addTimestampsIfMissing(validatedRecord.value, clock)
  IN /\ Idle
     /\ IF ~validatedRecord.ok THEN RejectValidation(c, validatedRecord.error)
        ELSE Resolve(c, RecordResult(recordWithTimestamps),
                     <<PutCommand(recordWithTimestamps)>>,
                     PutItem(table, recordWithTimestamps))

createFetchOneRecord(keys) ==
  LET c == [op |-> "fetchOne", keys |-> <<keys>>, records |-> <<>>, args |-> NoArgs]
      validatedKeys == validateKeys(keys)
      found == Lookup(table, validatedKeys.value)
  IN /\ Idle
     /\ IF ~validatedKeys.ok THEN RejectValidation(c, validatedKeys.error)
        ELSE Resolve(c, IF found = {} THEN NullResult
                        ELSE RecordResult(CHOOSE it \in found : TRUE),
                     <<GetCommand(validatedKeys.value)>>, table)

createDeleteOneRecord(keys) ==
  LET c == [op |-> "deleteOne", keys |-> <<keys>>, records |-> <<>>, args |-> NoArgs]
      validatedKeys == validateKeys(keys)
  IN /\ Idle
     /\ IF ~validatedKeys.ok THEN RejectValidation(c, validatedKeys.error)
        ELSE Resolve(c, Void, <<DeleteCommand(validatedKeys.value)>>,
                     DeleteItem(table, validatedKeys.value))

createReplaceOneRecord(record) ==
  LET c == [op |-> "replaceOne", keys |-> <<>>, records |-> <<record>>, args |-> NoArgs]
      validatedRecord == validateUpdateRecord(record)
      updatedRecord == updateTimestamp(validatedRecord.value, clock)
  IN /\ Idle
     /\ IF ~validatedRecord.ok THEN RejectValidation(c, validatedRecord.error)
        ELSE Resolve(c, RecordResult(updatedRecord), <<PutCommand(updatedRecord)>>,
                     PutItem(table, updatedRecord))

\* Faulty variant: updates goes into the expression as the caller passed it.
patchOneCommand_unfiltered(keys, updates, now) ==
  LET validatedKeys == validateKeys(keys)
      updatesWithTimestamp == updateTimestamp(updates, now)
      entries == KeysOf(updatesWithTimestamp)
      used == 0..(Len(entries) - 1)
  IN IF ~validatedKeys.ok
       THEN [ok |-> FALSE, error |-> validatedKeys.error, command |-> NoCommand("Update")]
     ELSE [ok |-> TRUE, error |-> NoError,
           command |-> UpdateCommand(validatedKeys.value,
                                     [i \in used |-> entries[i + 1]],
                                     [i \in used |-> updatesWithTimestamp[entries[i + 1]]])]

\* What patchOne does before it awaits the backend: the validation and the
\* UpdateCommand it sends.  Placeholder i is `#attr<i>` / `:val<i>`, i the
\* index of the entry in Object.entries(updatesWithTimestamp).
patchOneCommand(keys, updates, now) ==
  LET validated == validatePatchUpdates(keys, updates)
      updatesWithTimestamp == updateTimestamp(validated.value.updates, now)
      entries == KeysOf(updatesWithTimestamp)
      used == {i \in 0..(Len(entries) - 1) : entries[i + 1] \notin DOMAIN keys}
  IN IF ~validated.ok THEN [ok |-> FALSE, error |-> validated.error, command |-> NoCommand("Update")]
     ELSE [ok |-> TRUE, error |-> NoError,
           command |-> UpdateCommand(validated.value.keys,
                                     [i \in used |-> entries[i + 1]],
                                     [i \in used |-> updatesWithTimestamp[entries[i + 1]]])]

createPatchOneRecord(keys, updates) ==
  LET c == [op |-> "patchOne", keys |-> <<keys>>, records |-> <<updates>>, args |-> NoArgs]
      p == patchOneCommand(keys, updates, clock)
  IN /\ Idle
     /\ IF ~p.ok THEN RejectValidation(c, p.error)
        ELSE IF ~UpdateAccepted(p.command)
          THEN RejectBackend(c, ServiceError("ValidationException"), <<p.command>>, table)
        ELSE Resolve(c, RecordResult(UpdatedItem(table, p.command)), <<p.command>>,
                     PutItem(table, UpdatedItem(table, p.command)))

\* for (i = 0; i < items.length; i += limit) batches.push(items.slice(i, i + limit))
Min(a, b) == IF a < b THEN a ELSE b
\* Faulty variant: the loop steps by limit + 1 and slices as much.
Chunks_oneOverLimit(items, limit) ==
  LET starts == {i \in 0..(Len(items) - 1) : i % (limit + 1) = 0} IN
  [k \in 1..Cardinality(starts) |->
     SubSeq(items, (k - 1) * (limit + 1) + 1, Min(k * (limit + 1), Len(items)))]

\* Faulty variant: an empty list gives one empty chunk.
Chunks_emptyChunk(items, limit) ==
  LET starts == {i \in 0..(Len(items) - 1) : i % limit = 0} IN
  IF items = <<>> THEN <<items>>
  ELSE [k \in 1..Cardinality(starts) |->
          SubSeq(items, (k - 1) * limit + 1, Min((k - 1) * limit + limit, Len(items)))]

Chunks(items, limit) ==
  LET starts == {i \in 0..(Len(items) - 1) : i % limit = 0} IN
  [k \in 1..Cardinality(starts) |->
     SubSeq(items, (k - 1) * limit + 1, Min((k - 1) * limit + limit, Len(items)))]

PutRequest(item) == [kind |-> "PutRequest", obj |-> item]
DeleteRequest(key) == [kind |-> "DeleteRequest", obj |-> key]

\* ---------------------------------------------------- what the backend answers
\* The last n elements of s.
Suffix(s, n) == SubSeq(s, Len(s) - n + 1, Len(s))
Range(s) == {s[i] : i \in 1..Len(s)}
\* The requests of a chunk that the answer r does not report as unprocessed.
Served(batch, r) == SelectSeq(batch, LAMBDA q : q \notin Range(r.unprocessed))

\* A reliable backend serves every well-formed command in full.  A faulty one
\* may also throw, or leave up to MaxUnprocessed requests of a batch undone.
Faults(batch) ==
  IF backend = "reliable" THEN {Processed}
  ELSE {Throws("ServiceUnavailable")}
       \cup {Unprocessed(Suffix(batch, n)) : n \in 0..Min(MaxUnprocessed, Len(batch))}
RepliesTo(kind, req) ==
  IF kind = "write"
    THEN IF ~DistinctKeys([i \in 1..Len(req) |-> RequestKey(req[i])])
           THEN {Throws("ValidationException")} ELSE Faults(req)
  ELSE IF kind = "get"
    THEN IF ~DistinctKeys(req) THEN {Throws("ValidationException")} ELSE Faults(req)
  ELSE IF ~UpdateAccepted(req) THEN {Throws("ValidationException")} ELSE Faults(<<>>)

\* The answers to a sequence of awaited commands: the first throw is the last
\* answer, the commands after it are never sent.
RECURSIVE Scripts(_, _)
Scripts(kind, reqs) ==
  IF reqs = <<>> THEN {<<>>}
  ELSE LET H == RepliesTo(kind, Head(reqs)) IN
    {<<r>> : r \in {x \in H : x.throws}}
    \cup {<<r>> \o rest : r \in {x \in H : ~x.throws}, rest \in Scripts(kind, Tail(reqs))}

\* Faulty variant: a batch that throws is skipped and the loop goes on; the
\* error is thrown after the last batch.
RECURSIVE SendBatchWrites_goesOn(_, _, _, _)
SendBatchWrites_goesOn(tbl, batches, cmds, script) ==
  IF batches = <<>> THEN [table |-> tbl, sent |-> cmds, failed |-> FALSE, error |-> NoError]
  ELSE LET cmd == BatchWriteCommand(Head(batches))
           r == IF script = <<>> THEN Processed ELSE Head(script)
           rest == SendBatchWrites_goesOn(
                     IF r.throws THEN tbl ELSE ApplyWrites(tbl, Served(Head(batches), r)),
                     Tail(batches), Append(cmds, cmd),
                     IF script = <<>> THEN script ELSE Tail(script))
       IN IF r.throws THEN [rest EXCEPT !.failed = TRUE, !.error = r.error] ELSE rest

\* for (const batch of batches) await client.send(new BatchWriteCommand(...)):
\* the first batch that throws ends the loop; UnprocessedItems is not read.
RECURSIVE SendBatchWrites(_, _, _, _)
SendBatchWrites(tbl, batches, cmds, script) ==
  IF batches = <<>> THEN [table |-> tbl, sent |-> cmds, failed |-> FALSE, error |-> NoError]
  ELSE LET cmd == BatchWriteCommand(Head(batches))
           r == Head(script)
       IN IF r.throws
            THEN [table |-> tbl, sent |-> Append(cmds, cmd), failed |-> TRUE, error |-> r.error]
          ELSE SendBatchWrites(ApplyWrites(tbl, Served(Head(batches), r)), Tail(batches),
                               Append(cmds, cmd), Tail(script))

\* logger.debug(..., {count}) ... logger.info(..., {count}) around the loop
BatchLog(count, between, failed) ==
  <<Log("debug", count)>> \o between \o (IF failed THEN <<>> ELSE <<Log("info", count)>>)

\* Faulty variant: each record is validated when its turn to be written comes, so the
\* valid records before the first invalid one are written.
createCreateManyRecords_writesValidPrefix(records) ==
  LET c == [op |-> "createMany", keys |-> <<>>, records |-> records, args |-> NoArgs]
      validatedRecords == validateBatchRecords(records)
      stamp(r) == addTimestampsIfMissing(r, clock)
      upTo == IF validatedRecords.ok THEN Len(records) ELSE validatedRecords.error.index
      recordsWithTimestamps == [i \in 1..Len(SubSeq(records, 1, upTo)) |-> stamp(SubSeq(records, 1, upTo)[i])]
      batches == Chunks([i \in 1..Len(recordsWithTimestamps) |-> PutRequest(recordsWithTimestamps[i])], DYNAMODB_BATCH_WRITE_LIMIT)
  IN /\ Idle
     /\ \E script \in Scripts("write", batches) :
          LET done == SendBatchWrites(table, batches, <<>>, script) IN
          Finish(c, IF done.failed THEN "backend_error"
                    ELSE IF validatedRecords.ok THEN "ok" ELSE "validation_error",
                 IF done.failed \/ ~validatedRecords.ok THEN NoResult
                 ELSE ListResult(recordsWithTimestamps),
                 IF done.failed THEN done.error ELSE validatedRecords.error,
                 done.sent, script, <<>>, done.table)
     /\ UNCHANGED inflight

createCreateManyRecords(records) ==
  LET c == [op |-> "createMany", keys |-> <<>>, records |-> records, args |-> NoArgs]
      validatedRecords == validateBatchRecords(records)
      stamp(r) == addTimestampsIfMissing(r, clock)
      recordsWithTimestamps == [i \in 1..Len(validatedRecords.value) |-> stamp(validatedRecords.value[i])]
      batches == Chunks([i \in 1..Len(recordsWithTimestamps) |-> PutRequest(recordsWithTimestamps[i])], DYNAMODB_BATCH_WRITE_LIMIT)
  IN /\ Idle
     /\ IF ~validatedRecords.ok THEN RejectValidation(c, validatedRecords.error)
        ELSE /\ \E script \in Scripts("write", batches) :
                  LET done == SendBatchWrites(table, batches, <<>>, script) IN
                  Finish(c, IF done.failed THEN "backend_error" ELSE "ok",
                         IF done.failed THEN NoResult ELSE ListResult(recordsWithTimestamps),
                         done.error, done.sent, script,
                         BatchLog(Len(recordsWithTimestamps), <<>>, done.failed), done.table)
             /\ UNCHANGED inflight

createDeleteManyRecords(keysList) ==
  LET c == [op |-> "deleteMany", keys |-> keysList, records |-> <<>>, args |-> NoArgs]
      validatedKeysList == validateBatchKeys(keysList)
      batches == Chunks([i \in 1..Len(validatedKeysList.value) |-> DeleteRequest(validatedKeysList.value[i])], DYNAMODB_BATCH_WRITE_LIMIT)
  IN /\ Idle
     /\ IF ~validatedKeysList.ok THEN RejectValidation(c, validatedKeysList.error)
        ELSE /\ \E script \in Scripts("write", batches) :
                  LET done == SendBatchWrites(table, batches, <<>>, script) IN
                  Finish(c, IF done.failed THEN "backend_error" ELSE "ok",
                         IF done.failed THEN NoResult ELSE Void,
                         done.error, done.sent, script,
                         BatchLog(Len(validatedKeysList.value), <<>>, done.failed), done.table)
             /\ UNCHANGED inflight

\* BatchGetItem answers with the items stored under the requested keys.
Found(tbl, keys) ==
  LET stored == {ItemKey(it) : it \in tbl}
      hits == SelectSeq(keys, LAMBDA k : k \in stored)
  IN [i \in 1..Len(hits) |-> CHOOSE it \in tbl : ItemKey(it) = hits[i]]

\* for (const batch of batches): the Responses of each answer are appended to
\* results, a non-empty UnprocessedKeys is logged as a warning with its length.
RECURSIVE SendBatchGets(_, _, _, _, _)
SendBatchGets(tbl, batches, cmds, results, script) ==
  IF batches = <<>>
    THEN [results |-> results, sent |-> cmds, failed |-> FALSE, error |-> NoError, warned |-> <<>>]
  ELSE LET cmd == BatchGetCommand(Head(batches))
           r == Head(script)
       IN IF r.throws
            THEN [results |-> results, sent |-> Append(cmds, cmd), failed |-> TRUE,
                  error |-> r.error, warned |-> <<>>]
          ELSE LET rest == SendBatchGets(tbl, Tail(batches), Append(cmds, cmd),
                                         results \o Found(tbl, Served(Head(batches), r)),
                                         Tail(script))
               IN [rest EXCEPT !.warned =
                     (IF r.unprocessed = <<>> THEN <<>>
                      ELSE <<Log("warn", Len(r.unprocessed))>>) \o rest.warned]

createFetchManyRecords(keysList) ==
  LET c == [op |-> "fetchMany", keys |-> keysList, records |-> <<>>, args |-> NoArgs]
      validatedKeysList == validateBatchKeys(keysList)
      batches == Chunks(validatedKeysList.value, DYNAMODB_BATCH_GET_LIMIT)
  IN /\ Idle
     /\ UNCHANGED inflight
     /\ IF Len(keysList) = 0
          THEN Finish(c, "ok", ListResult(<<>>), NoError, <<>>, <<>>,
                      <<Log("debug", NoCount)>>, table)
        ELSE IF ~validatedKeysList.ok THEN RejectValidation(c, validatedKeysList.error)
        ELSE \E script \in Scripts("get", batches) :
          LET done == SendBatchGets(table, batches, <<>>, <<>>, script) IN
          Finish(c, IF done.failed THEN "backend_error" ELSE "ok",
                 IF done.failed THEN NoResult ELSE ListResult(done.results),
                 done.error, done.sent, script,
                 BatchLog(Len(validatedKeysList.value), done.warned, done.failed), table)

\* Promise.all over the patchOne calls: every UpdateCommand is sent at once, the
\* backend serves them in the order `order`, and the first one that throws
\* rejects the whole call while the commands in `rest` are still to be served.
\* items[i] is what the backend answers to the i-th command.
RECURSIVE ApplyUpdates(_, _, _, _)
ApplyUpdates(tbl, cmds, order, script) ==
  IF order = <<>>
    THEN [table |-> tbl, items |-> <<>>, failed |-> FALSE, error |-> NoError, rest |-> <<>>]
  ELSE LET i == Head(order)
           r == Head(script)
       IN IF r.throws
            THEN [table |-> tbl, items |-> <<>>, failed |-> TRUE, error |-> r.error,
                  rest |-> Tail(order)]
          ELSE LET item == UpdatedItem(tbl, cmds[i])
                   then == ApplyUpdates(PutItem(tbl, item), cmds, Tail(order), Tail(script))
               IN [then EXCEPT !.items = (i :> item) @@ then.items]

Orders(n) == {p \in [1..n -> 1..n] : \A i, j \in 1..n : p[i] = p[j] => i = j}

\* The answer to command i of a Promise.all: none yet while it is in flight.
Pending == [throws |-> FALSE, error |-> ServiceError("pending"), unprocessed |-> <<>>]
AnswerTo(i, order, script) ==
  LET at == CHOOSE j \in 1..Len(order) : order[j] = i
  IN IF at <= Len(script) THEN script[at] ELSE Pending

createPatchManyRecords(updates) ==
  LET c == [op |-> "patchMany", keys |-> [i \in 1..Len(updates) |-> updates[i].keys],
            records |-> [i \in 1..Len(updates) |-> updates[i].updates],
            args |-> NoArgs]
      validatedUpdates == validateBatchPatchUpdates(updates)
      plan(u) == patchOneCommand(u.keys, u.updates, clock)
      plans == [i \in 1..Len(validatedUpdates.value) |-> plan(validatedUpdates.value[i])]
      cmds == [i \in 1..Len(plans) |-> plans[i].command]
      n == Len(cmds)
  IN /\ Idle
     /\ IF ~validatedUpdates.ok
          THEN RejectValidation(c, validatedUpdates.error)
        ELSE \E order \in Orders(n) :
          \E script \in Scripts("update", [j \in 1..n |-> cmds[order[j]]]) :
            LET done == ApplyUpdates(table, cmds, order, script)
                served == Len(script) - (IF done.failed THEN 1 ELSE 0)
            IN /\ Finish(c, IF done.failed THEN "backend_error" ELSE "ok",
                         IF done.failed THEN NoResult ELSE ListResult(done.items),
                         done.error, cmds, [i \in 1..n |-> AnswerTo(i, order, script)],
                         BatchLog(n, [i \in 1..n |-> Log("debug", NoCount)]
                                     \o [i \in 1..served |-> Log("info", NoCount)],
                                  done.failed),
                         done.table)
               /\ inflight' = inflight \o [j \in 1..Len(done.rest) |-> cmds[done.rest[j]]]

\* The backend serves a command that was still in flight when its call rejected.
Settle ==
  /\ inflight # <<>>
  /\ \E r \in RepliesTo("update", Head(inflight)) :
       table' = IF r.throws THEN table
                ELSE PutItem(table, UpdatedItem(table, Head(inflight)))
  /\ inflight' = Tail(inflight)
  /\ UNCHANGED <<clock, call, outcome, result, error, sent, replies, log, backend, calls, deps,
                 held>>

\* ------------------------------------------------------------ paged reads
\* The order in which the backend lists items: by partition value, then sort value.
Before(a, b) ==
  \/ a[partitionKey].val < b[partitionKey].val
  \/ a[partitionKey].val = b[partitionKey].val /\ a[sortKey].val <= b[sortKey].val
RECURSIVE Listed(_)
Listed(S) ==
  IF S = {} THEN <<>>
  ELSE LET first == CHOOSE x \in S : \A y \in S : Before(x, y)
       IN <<first>> \o Listed(S \ {first})

\* A Query names the index and compares its key with a non-empty string.
Accepted(cmd) ==
  \/ cmd.cmd = "Scan"
  \/ /\ cmd.IndexName = gsiName
     /\ cmd.Names[0] = sortKey
     /\ cmd.Values[0].type = "string" /\ cmd.Values[0].val # 0
Matching(tbl, cmd) ==
  IF cmd.cmd = "Scan" THEN tbl
  ELSE {it \in tbl : Has(it, cmd.Names[0]) /\ it[cmd.Names[0]] = cmd.Values[0]}

\* The backend cuts the listing where it likes: cuts[j] items are out after
\* page j, a page may be empty, and every page but the last carries a cursor.
Cuts(n) ==
  {c \in UNION {[1..k -> 0..n] : k \in 1..MaxPages} :
     /\ c[Len(c)] = n
     /\ \A j \in 1..(Len(c) - 1) : c[j] <= c[j + 1]}
Cursor(position) == [type |-> "object", val |-> position]
Pages(listing, cuts) ==
  [j \in 1..Len(cuts) |->
     Page(SubSeq(listing, (IF j = 1 THEN 0 ELSE cuts[j - 1]) + 1, cuts[j]),
          IF j < Len(cuts) THEN Cursor(cuts[j]) ELSE Undefined)]
PageScripts(tbl, first) ==
  IF ~Accepted(first) THEN {<<Throws("ValidationException")>>}
  ELSE LET listing == Listed(Matching(tbl, first))
       IN {Pages(listing, cuts) : cuts \in Cuts(Len(listing))}

\* Faulty variant: the loop also ends at a page without items.
ReadPages_stopsAtEmptyPage(first, script, j, items, cmds, lastEvaluatedKey) ==
  LET RECURSIVE go(_, _, _, _)
      go(k, its, cs, key) ==
        LET cmd == [first EXCEPT !.ExclusiveStartKey = key]
            r == script[k]
        IN IF r.throws
             THEN [failed |-> TRUE, error |-> r.error, items |-> its, sent |-> Append(cs, cmd)]
           ELSE IF Truthy(r.LastEvaluatedKey) /\ r.Items # <<>>
             THEN go(k + 1, its \o r.Items, Append(cs, cmd), r.LastEvaluatedKey)
           ELSE [failed |-> FALSE, error |-> NoError, items |-> its \o r.Items,
                 sent |-> Append(cs, cmd)]
  IN go(j, items, cmds, lastEvaluatedKey)

\* Faulty variant: every request is sent without ExclusiveStartKey.
ReadPages_dropsCursor(first, script, j, items, cmds, lastEvaluatedKey) ==
  LET RECURSIVE go(_, _, _)
      go(k, its, cs) ==
        LET r == script[k] IN
        IF r.throws
          THEN [failed |-> TRUE, error |-> r.error, items |-> its, sent |-> Append(cs, first)]
        ELSE IF Truthy(r.LastEvaluatedKey)
          THEN go(k + 1, its \o r.Items, Append(cs, first))
        ELSE [failed |-> FALSE, error |-> NoError, items |-> its \o r.Items,
              sent |-> Append(cs, first)]
  IN go(j, items, cmds)

\* do { send; items.push(...result.Items); lastEvaluatedKey = ... } while (lastEvaluatedKey)
RECURSIVE ReadPages(_, _, _, _, _, _)
ReadPages(first, script, j, items, cmds, lastEvaluatedKey) ==
  LET cmd == [first EXCEPT !.ExclusiveStartKey = lastEvaluatedKey]
      r == script[j]
  IN IF r.throws
       THEN [failed |-> TRUE, error |-> r.error, items |-> items, sent |-> Append(cmds, cmd)]
     ELSE IF Truthy(r.LastEvaluatedKey)
       THEN ReadPages(first, script, j + 1, items \o r.Items, Append(cmds, cmd),
                      r.LastEvaluatedKey)
     ELSE [failed |-> FALSE, error |-> NoError, items |-> items \o r.Items,
           sent |-> Append(cmds, cmd)]

\* The read of all pages of one command, as both enumerations finish it.
FinishRead(c, first) ==
  \E script \in PageScripts(table, first) :
    LET read == ReadPages(first, script, 1, <<>>, <<>>, Undefined)
        rps == SubSeq(script, 1, Len(read.sent))
    IN /\ IF read.failed
            THEN Finish(c, "backend_error", NoResult, read.error, read.sent, rps,
                        <<Log("debug", NoCount)>>, table)
          ELSE Finish(c, "ok", ListResult(read.items), NoError, read.sent, rps,
                      <<Log("debug", NoCount), Log("info", Len(read.items))>>, table)
       /\ UNCHANGED inflight

createFetchAllRecords(sk) ==
  LET c == [op |-> "fetchAll", keys |-> <<>>, records |-> <<>>,
            args |-> [index |-> gsiName, sk |-> sk]]
  IN /\ Idle
     /\ FinishRead(c, QueryCommand(gsiName, sortKey, sk, Undefined))

createCreateFetchAllRecords(index, sk) ==
  LET c == [op |-> "createFetchAll", keys |-> <<>>, records |-> <<>>,
            args |-> [index |-> index, sk |-> sk]]
  IN /\ Idle
     /\ IF Truthy(sk) THEN FinishRead(c, QueryCommand(index, sortKey, sk, Undefined))
        ELSE FinishRead(c, ScanCommand(Undefined))

\* The caller takes the settled promise.
Return ==
  /\ ~Idle
  /\ call' = NoCall /\ outcome' = "none" /\ result' = NoResult /\ error' = NoError
  /\ sent' = <<>> /\ replies' = <<>> /\ log' = <<>> /\ held' = <<>>
  /\ UNCHANGED <<table, clock, inflight, backend, calls, deps>>

\* The wall clock reads something else (it may also have been set back).
Tick ==
  /\ Idle
  /\ \E t \in 1..MaxClock : t # clock /\ clock' = t
  /\ UNCHANGED <<table, call, outcome, result, error, sent, replies, log, inflight, backend,
                 calls, deps, held>>

Next ==
  \/ \E r \in CreateInputs : createCreateOneRecord(r)
  \/ \E k \in KeyInputs : createFetchOneRecord(k)
  \/ \E k \in KeyInputs : createDeleteOneRecord(k)
  \/ \E r \in ReplaceInputs : createReplaceOneRecord(r)
  \/ \E p \in PatchOneInputs : createPatchOneRecord(p.keys, p.updates)
  \/ \E rs \in CreateManyInputs : createCreateManyRecords(rs)
  \/ \E ks \in KeyListInputs : createFetchManyRecords(ks)
  \/ \E ks \in KeyListInputs : createDeleteManyRecords(ks)
  \/ \E us \in PatchManyInputs : createPatchManyRecords(us)
  \/ Return
  \/ Tick

Spec == Init /\ [][Next]_vars

\* ------------------------------------------- batches against a faulty backend
\* Lists long enough to be cut into chunks, sent to a backend that may throw
\* or leave requests unprocessed.  The i-th record has the i-th partition value.
KeyNo(i) == (partitionKey :> Str(i)) @@ (sortKey :> Str(1))
KeysList(n) == [i \in 1..n |-> KeyNo(i)]
WriteSizes == {0, 1, DYNAMODB_BATCH_WRITE_LIMIT, DYNAMODB_BATCH_WRITE_LIMIT + 1}
GetSizes == {0, 1, DYNAMODB_BATCH_GET_LIMIT, DYNAMODB_BATCH_GET_LIMIT + 1}
PatchRequests == Lists({[keys |-> KeyNo(1), updates |-> "name" :> Str(1)]}, MaxBatch)

BatchInit ==
  /\ table = {}
  /\ clock = 1
  /\ call = NoCall
  /\ outcome = "none"
  /\ result = NoResult
  /\ error = NoError
  /\ sent = <<>>
  /\ replies = <<>>
  /\ log = <<>>
  /\ inflight = <<>>
  /\ backend = "faulty"
  /\ calls = NoCalls
  /\ deps = createAdapter
  /\ held = <<>>

BatchNext ==
  \/ \E n \in WriteSizes : createCreateManyRecords(KeysList(n))
  \/ \E n \in WriteSizes : createDeleteManyRecords(KeysList(n))
  \/ \E n \in GetSizes : createFetchManyRecords(KeysList(n))
  \/ \E us \in PatchRequests : createPatchManyRecords(us)
  \/ Settle
  \/ (inflight = <<>> /\ Return)

BatchSpec == BatchInit /\ [][BatchNext]_vars

\* ------------------------------------------------------ the paged-read spec
\* A table of records that share sort values, read through a backend that
\* pages as it likes.  Record i has the i-th partition value.
Stored(i) ==
  (partitionKey :> Str(i)) @@ (sortKey :> Str(1 + (i % 2)))
  @@ ("createdAt" :> Str(1)) @@ ("updatedAt" :> Str(1))
SortValues == {Undefined, Str(0), Str(1), Str(2), Str(3)}
IndexNames == {gsiName, "gsiByName"}

QueryInit ==
  /\ table \in SUBSET {Stored(i) : i \in 1..MaxStored}
  /\ clock = 1
  /\ call = NoCall
  /\ outcome = "none"
  /\ result = NoResult
  /\ error = NoError
  /\ sent = <<>>
  /\ replies = <<>>
  /\ log = <<>>
  /\ inflight = <<>>
  /\ backend = "reliable"
  /\ calls = NoCalls
  /\ deps = createAdapter
  /\ held = <<>>

QueryNext ==
  \/ \E sk \in SortValues \ {Undefined} : createFetchAllRecords(sk)
  \/ \E index \in IndexNames : \E sk \in SortValues : createCreateFetchAllRecords(index, sk)
  \/ Return

QuerySpec == QueryInit /\ [][QueryNext]_vars

\* ------------------------------------------------------ calls step by step
\* A call runs alone from one await to the next; while it waits for the
\* backend, other calls on the same adapter may start, go on or settle.

\* Faulty variant: `items` is declared once for the adapter, outside the call.
Owner_shared(id) == 1

\* `const items = []` is a local of the async function: call id pushes to its own.
Owner(id) == id

\* The cursor of a page names the last item listed; the next page starts after it.
Position(item) == item[partitionKey].val * 10 + item[sortKey].val
StartAfter(cmd) ==
  IF cmd.ExclusiveStartKey = Undefined THEN 0 ELSE cmd.ExclusiveStartKey.val
\* A page holds up to MaxPageSize of the items left, or all of them; it may
\* be empty and it may carry a cursor when nothing is left.  The page of
\* number MaxPages holds the rest and has no cursor.
PageReplies(tbl, cmd, number) ==
  IF ~Accepted(cmd) THEN {Throws("ValidationException")}
  ELSE LET rest == SelectSeq(Listed(Matching(tbl, cmd)),
                             LAMBDA it : Position(it) > StartAfter(cmd))
       IN {Page(rest, Undefined)}
          \cup (IF number >= MaxPages THEN {}
                ELSE {Page(SubSeq(rest, 1, n),
                           Cursor(IF n = 0 THEN StartAfter(cmd) ELSE Position(rest[n]))) :
                        n \in 0..Min(Len(rest), MaxPageSize)})
BackendReplies(tbl, cmd, number) ==
  IF cmd.cmd \in {"Query", "Scan"} THEN PageReplies(tbl, cmd, number)
  ELSE IF cmd.cmd = "BatchWrite" THEN RepliesTo("write", cmd.Requests)
  ELSE {IF r.throws THEN r ELSE [r EXCEPT !.Items = Found(tbl, Served(cmd.Requests, r))] :
          r \in RepliesTo("get", cmd.Requests)}
BackendEffect(tbl, cmd, r) ==
  IF cmd.cmd = "BatchWrite" /\ ~r.throws THEN ApplyWrites(tbl, Served(cmd.Requests, r))
  ELSE tbl

\* The command of the next page: the arguments of the call, config.deps and the
\* cursor.  Only a truthy sk makes the built function query.
PageCommand(c, d, lastEvaluatedKey) ==
  IF c.op = "fetchAll"
    THEN QueryCommand(d.gsiName, d.sortKey, c.args.sk, lastEvaluatedKey)
  ELSE IF Truthy(c.args.sk)
    THEN QueryCommand(c.args.index, d.sortKey, c.args.sk, lastEvaluatedKey)
  ELSE ScanCommand(lastEvaluatedKey)

BatchCommand(op, batch) ==
  IF op = "fetchMany" THEN BatchGetCommand(batch) ELSE BatchWriteCommand(batch)

\* Faulty variant: the commands of all batches are sent before any is awaited.
Issue_allAtOnce(op, batches, k) ==
  IF k = 1 THEN [j \in 1..Len(batches) |-> BatchCommand(op, batches[j])] ELSE <<>>

\* for (const batch of batches) { await config.client.send(...) }: what the
\* loop sends when it comes to batch k.
Issue(op, batches, k) ==
  IF k <= Len(batches) THEN <<BatchCommand(op, batches[k])>> ELSE <<>>

\* Faulty variant: the loop also ends at a page without items.
LoopsAgain_untilEmptyPage(r) == Truthy(r.LastEvaluatedKey) /\ r.Items # <<>>

\* do { ... } while (lastEvaluatedKey), lastEvaluatedKey = result.LastEvaluatedKey
LoopsAgain(r) == Truthy(r.LastEvaluatedKey)

Settled(c, pc, res, err) == [NoFrame EXCEPT !.call = c, !.pc = pc, !.result = res, !.error = err]
Begin(id, frame) ==
  /\ calls[id].pc = "idle"
  /\ calls' = [calls EXCEPT ![id] = frame]
  /\ UNCHANGED <<table, clock, call, outcome, result, error, sent, replies, log, inflight,
                 backend, deps, held>>

\* A call of a batch operation up to its first await.
BeginBatch(id, c, validated, requests, limit, stamped, whenEmpty) ==
  LET batches == Chunks(requests, limit)
      first == Issue(c.op, batches, 1)
  IN Begin(id, IF ~validated.ok THEN Settled(c, "validation_error", NoResult, validated.error)
               ELSE IF first = <<>> THEN Settled(c, "ok", whenEmpty, NoError)
               ELSE [NoFrame EXCEPT !.call = c, !.pc = "awaiting", !.batches = batches,
                                    !.recordsWithTimestamps = stamped,
                                    !.awaiting = first, !.sent = first])

CallCreateManyRecords(id, records) ==
  LET c == [op |-> "createMany", keys |-> <<>>, records |-> records, args |-> NoArgs]
      validatedRecords == validateBatchRecords(records)
      recordsWithTimestamps ==
        [i \in 1..Len(validatedRecords.value) |->
           addTimestampsIfMissing(validatedRecords.value[i], clock)]
  IN BeginBatch(id, c, validatedRecords,
                [i \in 1..Len(recordsWithTimestamps) |-> PutRequest(recordsWithTimestamps[i])],
                DYNAMODB_BATCH_WRITE_LIMIT, recordsWithTimestamps,
                ListResult(recordsWithTimestamps))

CallDeleteManyRecords(id, keysList) ==
  LET c == [op |-> "deleteMany", keys |-> keysList, records |-> <<>>, args |-> NoArgs]
      validatedKeysList == validateBatchKeys(keysList)
  IN BeginBatch(id, c, validatedKeysList,
                [i \in 1..Len(validatedKeysList.value) |-> DeleteRequest(validatedKeysList.value[i])],
                DYNAMODB_BATCH_WRITE_LIMIT, <<>>, Void)

CallFetchManyRecords(id, keysList) ==
  LET c == [op |-> "fetchMany", keys |-> keysList, records |-> <<>>, args |-> NoArgs]
      validatedKeysList == validateBatchKeys(keysList)
  IN IF Len(keysList) = 0 THEN Begin(id, Settled(c, "ok", ListResult(<<>>), NoError))
     ELSE BeginBatch(id, c, validatedKeysList, validatedKeysList.value,
                     DYNAMODB_BATCH_GET_LIMIT, <<>>, ListResult(<<>>))

\* A paged read up to its first await: the first command has no cursor.
BeginRead(id, c) ==
  LET first == <<PageCommand(c, deps, Undefined)>>
  IN Begin(id, [NoFrame EXCEPT !.call = c, !.pc = "awaiting",
                               !.awaiting = first, !.sent = first])

CallFetchAllRecords(id, sk) ==
  BeginRead(id, [op |-> "fetchAll", keys |-> <<>>, records |-> <<>>,
                 args |-> [index |-> deps.gsiName, sk |-> sk]])

CallCreateFetchAllRecords(id, index, sk) ==
  BeginRead(id, [op |-> "createFetchAll", keys |-> <<>>, records |-> <<>>,
                 args |-> [index |-> index, sk |-> sk]])

\* The call after the await that r answers, up to its next await or its end;
\* items is the accumulator as the call finds it.
Continue(f, r, items) ==
  LET answered == [f EXCEPT !.awaiting = Tail(@), !.replies = Append(@, r)]
      pushed == items \o r.Items
  IN IF f.pc # "awaiting" THEN answered
     ELSE IF r.throws THEN [answered EXCEPT !.pc = "backend_error", !.error = r.error]
     ELSE IF f.call.op \in {"fetchAll", "createFetchAll"}
       THEN IF LoopsAgain(r)
              THEN LET next == PageCommand(f.call, deps, r.LastEvaluatedKey)
                   IN [answered EXCEPT !.items = pushed,
                                       !.lastEvaluatedKey = r.LastEvaluatedKey,
                                       !.awaiting = Append(@, next), !.sent = Append(@, next)]
            ELSE [answered EXCEPT !.items = pushed, !.lastEvaluatedKey = r.LastEvaluatedKey,
                                  !.pc = "ok", !.result = ListResult(pushed)]
     ELSE LET next == Issue(f.call.op, f.batches, Len(answered.replies) + 1)
          IN IF answered.awaiting \o next # <<>>
               THEN [answered EXCEPT !.items = pushed,
                                     !.awaiting = @ \o next, !.sent = @ \o next]
             ELSE [answered EXCEPT
                     !.items = pushed, !.pc = "ok",
                     !.result = IF f.call.op = "createMany" THEN ListResult(f.recordsWithTimestamps)
                                ELSE IF f.call.op = "deleteMany" THEN Void
                                ELSE ListResult(pushed)]

\* The backend answers the oldest command of call id and the call goes on.
Resume(id) ==
  /\ calls[id].awaiting # <<>>
  /\ \E r \in BackendReplies(table, Head(calls[id].awaiting), Len(calls[id].replies) + 1) :
       LET after == Continue(calls[id], r, calls[Owner(id)].items)
       IN /\ table' = BackendEffect(table, Head(calls[id].awaiting), r)
          /\ calls' = [calls EXCEPT ![id] = after, ![Owner(id)].items = after.items]
  /\ UNCHANGED <<clock, call, outcome, result, error, sent, replies, log, inflight, backend,
                 deps, held>>

\* The caller takes what call id settled with.
Collect(id) ==
  /\ calls[id].pc \notin {"idle", "awaiting"}
  /\ calls[id].awaiting = <<>>
  /\ calls' = [calls EXCEPT ![id] = NoFrame]
  /\ UNCHANGED <<table, clock, call, outcome, result, error, sent, replies, log, inflight,
                 backend, deps, held>>

\* One call at a time, every loop of the adapter, a backend that may throw
\* or leave requests of a batch undone.
LoopInit ==
  /\ table = {Stored(i) : i \in 1..MaxStored}
  /\ clock = 1
  /\ call = NoCall
  /\ outcome = "none"
  /\ result = NoResult
  /\ error = NoError
  /\ sent = <<>>
  /\ replies = <<>>
  /\ log = <<>>
  /\ inflight = <<>>
  /\ backend = "faulty"
  /\ calls = NoCalls
  /\ deps = createAdapter
  /\ held = <<>>

LoopNext ==
  \/ \E n \in WriteSizes : CallCreateManyRecords(1, KeysList(n))
  \/ \E n \in WriteSizes : CallDeleteManyRecords(1, KeysList(n))
  \/ \E n \in GetSizes : CallFetchManyRecords(1, KeysList(n))
  \/ \E sk \in SortValues \ {Undefined} : CallFetchAllRecords(1, sk)
  \/ \E index \in IndexNames : \E sk \in SortValues : CallCreateFetchAllRecords(1, index, sk)
  \/ Resume(1)
  \/ Collect(1)

LoopSpec == LoopInit /\ [][LoopNext]_vars

\* The paged reads alone, with a backend that answers every command it was sent.
ReadNext ==
  \/ \E sk \in SortValues \ {Undefined} : CallFetchAllRecords(1, sk)
  \/ \E index \in IndexNames : \E sk \in SortValues : CallCreateFetchAllRecords(1, index, sk)
  \/ Resume(1)
  \/ Collect(1)

ReadFair == LoopInit /\ [][ReadNext]_vars /\ WF_vars(Resume(1))

\* Calls side by side on one adapter: paged reads of the two sort values
\* stored and a delete of two chunks that empties the table under them.
ConcurrentInit ==
  /\ table = {Stored(1), Stored(2)}
  /\ clock = 1
  /\ call = NoCall
  /\ outcome = "none"
  /\ result = NoResult
  /\ error = NoError
  /\ sent = <<>>
  /\ replies = <<>>
  /\ log = <<>>
  /\ inflight = <<>>
  /\ backend = "reliable"
  /\ calls = NoCalls
  /\ deps = createAdapter
  /\ held = <<>>

ConcurrentNext ==
  \E id \in 1..MaxCalls :
    \/ CallFetchAllRecords(id, Str(1))
    \/ CallCreateFetchAllRecords(id, gsiName, Str(2))
    \/ CallDeleteManyRecords(id, KeysList(DYNAMODB_BATCH_WRITE_LIMIT + 1))
    \/ Resume(id)
    \/ Collect(id)

ConcurrentSpec == ConcurrentInit /\ [][ConcurrentNext]_vars

\* ------------------------------------------------------------------ claims
TheRecord(res) == res.items[1]
StoredUnder(tbl, key) == CHOOSE it \in Lookup(tbl, key) : TRUE
KeyPart(o) == Restrict(o, {partitionKey, sortKey})
BatchOps == {"createMany", "fetchMany", "deleteMany", "patchMany"}

\* The element of the call that the single-item validator refuses, if any.
InvalidElements(c) ==
  IF c.op \in {"createOne", "createMany"}
    THEN {i \in 1..Len(c.records) : ~validateCreateRecord(c.records[i]).ok}
  ELSE IF c.op = "replaceOne"
    THEN {i \in 1..Len(c.records) : ~validateUpdateRecord(c.records[i]).ok}
  ELSE {i \in 1..Len(c.keys) : ~validateKeys(c.keys[i]).ok}

\* C1: a call whose key or record (or any element of whose batch) fails
\* validation is rejected with a validation error, has issued no backend
\* command and leaves the table as it was.
C1_ValidationFailureHasNoEffect ==
  [][(call'.op # "idle" /\ InvalidElements(call') # {})
       => (outcome' = "validation_error" /\ sent' = <<>> /\ table' = table)]_vars

\* A batch create whose first record is valid and whose second is not.
C1_Witness ==
  /\ call.op = "createMany" /\ Len(call.records) = 2
  /\ InvalidElements(call) = {2}
  /\ outcome = "validation_error"

\* C2: the error of a batch validator names the zero-based index of the first
\* invalid element and carries the message of the single-item validator for
\* that element.
SingleError(c, i) ==
  IF c.op = "createMany" THEN validateCreateRecord(c.records[i]).error
  ELSE validateKeys(c.keys[i]).error
BatchName(c) ==
  IF c.op = "createMany" THEN "record" ELSE IF c.op = "patchMany" THEN "patch" ELSE "keys"
C2_BatchErrorNamesFirstInvalidIndex ==
  (call.op \in BatchOps /\ InvalidElements(call) # {}) =>
    LET first == CHOOSE i \in InvalidElements(call) : \A j \in InvalidElements(call) : i <= j
    IN /\ outcome = "validation_error"
       /\ error.batch = BatchName(call)
       /\ error.index = first - 1
       /\ error.what = SingleError(call, first).what
       /\ error.fields = SingleError(call, first).fields

\* A batch with two invalid elements that fail for different reasons.
C2_Witness ==
  /\ call.op \in BatchOps /\ InvalidElements(call) = {1, 2}
  /\ SingleError(call, 1).fields # SingleError(call, 2).fields
  /\ outcome = "validation_error" /\ error.index = 0

\* A field that holds a non-empty string or a number.
IsStringOrNumberKey(o, f) ==
  Has(o, f) /\ (o[f].type = "number" \/ (o[f].type = "string" /\ o[f].val >= 1))
HasNumericKey(o) ==
  /\ IsStringOrNumberKey(o, partitionKey) /\ IsStringOrNumberKey(o, sortKey)
  /\ "number" \in {o[partitionKey].type, o[sortKey].type}

\* C3: a key or record whose partition or sort field holds a number is
\* accepted and the number reaches the backend as it is.
C3_NumericKeysAccepted ==
  /\ (call.op \in {"fetchOne", "deleteOne"} /\ HasNumericKey(call.keys[1])
      /\ DOMAIN call.keys[1] = {partitionKey, sortKey})
       => (outcome = "ok" /\ sent[1].Key = call.keys[1])
  /\ (call.op \in {"createOne", "replaceOne"} /\ HasNumericKey(call.records[1]))
       => (outcome = "ok" /\ KeyPart(sent[1].Item) = KeyPart(call.records[1]))

\* C4: record validation accepts a record exactly when its partition and sort
\* fields are present and non-empty, and an accepted record keeps every other
\* field as it was, none added or removed.
C4_RecordAcceptedIffKeysPresent ==
  (call.op \in {"createOne", "replaceOne"}) =>
    LET r == call.records[1] IN
    /\ (outcome # "validation_error")
         <=> (IsStringOrNumberKey(r, partitionKey) /\ IsStringOrNumberKey(r, sortKey))
    /\ (outcome = "ok") =>
         Without(TheRecord(result), {"createdAt", "updatedAt"}) = Without(r, {"createdAt", "updatedAt"})

\* C5: a key with valid partition and sort fields and extraneous fields is
\* accepted, and every key handed to the backend has exactly the partition and
\* the sort field.
HasExtraneous(k) == DOMAIN k \ {partitionKey, sortKey} # {}
C5_ExtraneousKeyFieldsTolerated ==
  /\ \A i \in 1..Len(sent) :
       /\ sent[i].cmd \in {"Get", "Delete", "Update"} => DOMAIN sent[i].Key = {partitionKey, sortKey}
       /\ sent[i].cmd = "BatchGet" =>
            \A j \in 1..Len(sent[i].Requests) : DOMAIN sent[i].Requests[j] = {partitionKey, sortKey}
       /\ sent[i].cmd = "BatchWrite" =>
            \A j \in 1..Len(sent[i].Requests) :
              sent[i].Requests[j].kind = "DeleteRequest"
                => DOMAIN sent[i].Requests[j].obj = {partitionKey, sortKey}
  /\ (call.op \in {"fetchOne", "deleteOne", "patchOne"}
      /\ IsStringOrNumberKey(call.keys[1], partitionKey)
      /\ IsStringOrNumberKey(call.keys[1], sortKey)
      /\ HasExtraneous(call.keys[1]))
       => outcome # "validation_error"

\* C6: a patch never changes the partition or sort field: the update it sends
\* addresses the record named by keys, assigns neither key attribute whatever
\* updates holds, touches no other record, and the record returned carries the
\* key values of keys.
C6_PatchNeverChangesKeys ==
  [][(call'.op \in {"patchOne", "patchMany"} /\ outcome' # "validation_error") =>
       LET addressed == {KeyPart(call'.keys[i]) : i \in 1..Len(call'.keys)} IN
       /\ Len(sent') = Len(call'.keys)
       /\ \A i \in 1..Len(sent') :
            /\ sent'[i].cmd = "Update"
            /\ sent'[i].Key = KeyPart(call'.keys[i])
            /\ \A n \in DOMAIN sent'[i].Names :
                 sent'[i].Names[n] \notin {partitionKey, sortKey}
       /\ outcome' = "ok" =>
            \A i \in 1..Len(result'.items) :
              KeyPart(result'.items[i]) = KeyPart(call'.keys[i])
       /\ \A it \in (table' \ table) \cup (table \ table') : KeyPart(it) \in addressed
       /\ {KeyPart(it) : it \in table} \subseteq {KeyPart(it) : it \in table'}]_vars

\* A successful patch of a stored record whose updates name another partition value.
C6_Witness ==
  /\ call.op = "patchOne" /\ outcome = "ok"
  /\ Has(call.records[1], partitionKey)
  /\ call.records[1][partitionKey] # call.keys[1][partitionKey]
  /\ Has(TheRecord(result), "createdAt")

\* The items a create call handed to the backend, in order.
RECURSIVE PutItems(_)
PutItems(cmds) ==
  IF cmds = <<>> THEN <<>>
  ELSE (IF Head(cmds).cmd = "Put" THEN <<Head(cmds).Item>>
        ELSE [j \in 1..Len(Head(cmds).Requests) |-> Head(cmds).Requests[j].obj])
       \o PutItems(Tail(cmds))

Absent(o, f, missing) == ~Has(o, f) \/ o[f] \in missing
TimestampsDecidedPerField(missing) ==
  (call.op \in {"createOne", "createMany"} /\ outcome = "ok") =>
    /\ Len(result.items) = Len(call.records)
    /\ PutItems(sent) = result.items
    /\ \A i \in 1..Len(call.records) : \A f \in {"createdAt", "updatedAt"} :
         /\ Has(result.items[i], f)
         /\ result.items[i][f] =
              IF Absent(call.records[i], f, missing) THEN toISOString(clock) ELSE call.records[i][f]

\* C7 (as claimed): on the create path createdAt and updatedAt are decided
\* field by field: absent, null, undefined and "" give the current time, any
\* other value is kept, in the record returned and in the item written.
C7_Original == TimestampsDecidedPerField({Undefined, Null, Str(0)})

\* C7 (amended): as C7, with the values replaced by the current time being
\* all the falsy ones: absent, null, undefined, "", 0 and false.
C7_TimestampsDecidedPerField ==
  TimestampsDecidedPerField({Undefined, Null, Str(0), Num(0), Bool(FALSE)})

\* One field falsy but not in the claim's list, the other supplied.
C7_Witness ==
  /\ call.op = "createOne" /\ outcome = "ok"
  /\ Has(call.records[1], "createdAt") /\ call.records[1].createdAt = Num(0)
  /\ Has(call.records[1], "updatedAt") /\ call.records[1].updatedAt = CustomTimestamp

\* C8: when a create generates both createdAt and updatedAt of a record, the
\* two are equal.
BothGenerated(r) == \A f \in {"createdAt", "updatedAt"} : ~(Has(r, f) /\ Truthy(r[f]))
C8_GeneratedTimestampsEqual ==
  (call.op \in {"createOne", "createMany"} /\ outcome = "ok") =>
    \A i \in 1..Len(call.records) :
      BothGenerated(call.records[i]) => result.items[i].createdAt = result.items[i].updatedAt

\* Both generated, after the clock has moved.
C8_Witness ==
  /\ call.op \in {"createOne", "createMany"} /\ outcome = "ok" /\ Len(call.records) >= 1
  /\ BothGenerated(call.records[1])
  /\ clock = MaxClock
  /\ TheRecord(result).createdAt = toISOString(MaxClock)

\* C9: replaceOne of a stored record returns and stores the createdAt that was
\* stored before, whatever the new record carries, and the current time as
\* updatedAt.
C9_ReplacePreservesCreatedAt ==
  [][(/\ call'.op = "replaceOne" /\ outcome' = "ok"
      /\ Lookup(table, KeyPart(call'.records[1])) # {}
      /\ Has(StoredUnder(table, KeyPart(call'.records[1])), "createdAt")) =>
       LET old == StoredUnder(table, KeyPart(call'.records[1]))
           new == TheRecord(result')
       IN /\ Has(new, "createdAt") /\ new.createdAt = old.createdAt
          /\ new.updatedAt = toISOString(clock')
          /\ new \in table']_vars

\* a > b on two strings
Gt(a, b) == a.type = "string" /\ b.type = "string" /\ a.val > b.val
Patches == {"patchOne", "patchMany"}
\* The attributes that the requests of the call addressed to the key name.
Named(c, key) ==
  UNION {DOMAIN c.records[i] : i \in {j \in 1..Len(c.keys) : KeyPart(c.keys[j]) = key}}
KeptUnnamed(c, old, new) ==
  \A f \in DOMAIN old \ (Named(c, KeyPart(old)) \cup {"updatedAt"}) : Has(new, f) /\ new[f] = old[f]

Chunked == {"createMany", "deleteMany", "fetchMany"}
Ceil(n, d) == (n + d - 1) \div d
LimitOf(op) == IF op = "fetchMany" THEN DYNAMODB_BATCH_GET_LIMIT ELSE DYNAMODB_BATCH_WRITE_LIMIT
\* The key of the i-th item the call was given.
InputKey(c, i) == IF c.op = "createMany" THEN KeyPart(c.records[i]) ELSE KeyPart(c.keys[i])
InputLen(c) == IF c.op = "createMany" THEN Len(c.records) ELSE Len(c.keys)
\* The key that the j-th request of a batch command names.
NamedKey(cmd, j) ==
  IF cmd.cmd = "BatchGet" THEN cmd.Requests[j] ELSE RequestKey(cmd.Requests[j])
SomeUnprocessed == \E i \in 1..Len(replies) : replies[i].unprocessed # <<>>

\* C11: a batch of N valid items that completes has issued exactly
\* ceil(N / limit) batch commands (25 for writes, 100 for gets), also when the
\* backend reported unprocessed items; no command carries more than the limit
\* and the commands, in the order issued, carry the items of the input in the
\* order given, each once.
C11_OneCommandPerChunk ==
  (call.op \in Chunked /\ outcome \in {"ok", "backend_error"}) =>
    LET limit == LimitOf(call.op)
        n == InputLen(call)
    IN /\ Len(sent) <= Ceil(n, limit)
       /\ outcome = "ok" => Len(sent) = Ceil(n, limit)
       /\ \A k \in 1..Len(sent) :
            /\ sent[k].cmd = (IF call.op = "fetchMany" THEN "BatchGet" ELSE "BatchWrite")
            /\ Len(sent[k].Requests) <= limit
            /\ Len(sent[k].Requests) = (IF k < Ceil(n, limit) THEN limit ELSE n - (k - 1) * limit)
            /\ \A j \in 1..Len(sent[k].Requests) :
                 NamedKey(sent[k], j) = InputKey(call, (k - 1) * limit + j)

\* A batch one longer than the write limit, with an unprocessed item reported.
C11_Witness ==
  /\ call.op = "createMany" /\ Len(call.records) = DYNAMODB_BATCH_WRITE_LIMIT + 1
  /\ outcome = "ok" /\ Len(sent) = 2 /\ SomeUnprocessed

\* C12: a batch operation given an empty list resolves to the empty result
\* (an empty list, nothing for deleteMany) and sends no command.
C12_EmptyListSendsNothing ==
  (call.op \in BatchOps /\ Len(call.keys) = 0 /\ Len(call.records) = 0) =>
    /\ outcome = "ok"
    /\ sent = <<>>
    /\ result = (IF call.op = "deleteMany" THEN Void ELSE ListResult(<<>>))

\* deleteMany of nothing while records are stored.
C12_Witness ==
  /\ call.op = "deleteMany" /\ call.keys = <<>> /\ outcome = "ok"
  /\ table # {}

\* C13: when the backend reports requests of a batch write as unprocessed, a
\* warning carrying their count is logged (and that alone does not fail the call).
C13_UnprocessedWritesAreWarned ==
  (call.op \in {"createMany", "deleteMany"}) =>
    \A i \in 1..Len(replies) :
      replies[i].unprocessed # <<>> =>
        \E l \in 1..Len(log) :
          log[l].level = "warn" /\ log[l].count = Len(replies[i].unprocessed)

\* C14: every record of the list a createMany resolved to is stored as returned.
C14_CreatedRecordsAreStored ==
  (call.op = "createMany" /\ outcome = "ok") =>
    \A i \in 1..Len(result.items) : result.items[i] \in table

\* The table after the backend has served the first k commands of cmds.
RECURSIVE AfterChunks(_, _, _, _)
AfterChunks(tbl, cmds, rps, k) ==
  IF k = 0 THEN tbl
  ELSE LET before == AfterChunks(tbl, cmds, rps, k - 1) IN
    IF cmds[k].cmd = "BatchWrite"
      THEN ApplyWrites(before, Served(cmds[k].Requests, rps[k]))
    ELSE before

\* C15: when the backend throws on chunk k of a chunked batch, the call
\* rejects with that very error, chunk k is the last command sent (once), and
\* the table is as chunks 1..k-1 left it.
C15_ChunkFailurePropagates ==
  [][(call'.op \in Chunked /\ outcome' = "backend_error") =>
       LET k == Len(sent') IN
       /\ k >= 1 /\ Len(replies') = k
       /\ replies'[k].throws /\ error' = replies'[k].error
       /\ \A i \in 1..(k - 1) : ~replies'[i].throws
       /\ \A j \in 1..Len(sent'[k].Requests) :
            NamedKey(sent'[k], j) = InputKey(call', (k - 1) * LimitOf(call'.op) + j)
       /\ table' = AfterChunks(table, sent', replies', k - 1)]_vars

\* The second chunk of a createMany throws after the first was written.
C15_Witness ==
  /\ call.op = "createMany" /\ outcome = "backend_error"
  /\ Len(sent) = 2 /\ error = ServiceError("ServiceUnavailable")
  /\ \E it \in table : ItemKey(it) = KeyNo(DYNAMODB_BATCH_WRITE_LIMIT - 1)

\* C16: a call that fails, in validation or at the backend, has logged at
\* error level before it rejects.
C16_FailuresAreLoggedAsErrors ==
  (outcome \in {"validation_error", "backend_error"}) =>
    \E l \in 1..Len(log) : log[l].level = "error"

\* C17: patchMany sends one update per request and settles only when the
\* backend has answered them all: it resolves to one record per request, and
\* when it rejects none of its commands is still in flight and no list is
\* returned.
C17_PatchManyWaitsForAll ==
  (call.op = "patchMany" /\ outcome \in {"ok", "backend_error"}) =>
    /\ Len(sent) = Len(call.keys)
    /\ \A i \in 1..Len(replies) : replies[i] # Pending
    /\ inflight = <<>>
    /\ outcome = "ok" => Len(result.items) = Len(call.keys)
    /\ outcome = "backend_error" => result = NoResult

\* ----------------------------------------------------- claims about reads
SortValueOf(c) == c.args.sk
WithSortValue(tbl, v) == {it \in tbl : Has(it, sortKey) /\ it[sortKey] = v}
AllItems(rps) == [j \in 1..Len(rps) |-> rps[j].Items]
RECURSIVE Flatten(_)
Flatten(lists) == IF lists = <<>> THEN <<>> ELSE Head(lists) \o Flatten(Tail(lists))
EmptyPageWithCursor(r) == r.Items = <<>> /\ Truthy(r.LastEvaluatedKey)

\* C18: fetchAllRecords(v) with a non-empty v returns the stored records whose
\* sort field equals v and nothing else, each of them once, however the
\* backend cut them into pages.
C18_FetchAllReturnsMatching ==
  (call.op = "fetchAll" /\ Truthy(SortValueOf(call))) =>
    /\ outcome = "ok"
    /\ Range(result.items) = WithSortValue(table, SortValueOf(call))
    /\ Len(result.items) = Cardinality(WithSortValue(table, SortValueOf(call)))

\* Two records match and the backend sent an empty page with a cursor before
\* a page with items.
C18_Witness ==
  /\ call.op = "fetchAll" /\ outcome = "ok"
  /\ Len(result.items) = 2
  /\ Len(replies) = MaxPages
  /\ EmptyPageWithCursor(replies[1])
  /\ replies[MaxPages].Items # <<>>

\* C19: the built function sends only Query commands on the given index with
\* sort field = sk when a sort value was supplied and only Scan commands when
\* it was omitted, and it returns the items of all pages.
C19_ModeFollowsSortValue ==
  call.op = "createFetchAll" =>
    /\ \A j \in 1..Len(sent) :
         IF SortValueOf(call) # Undefined
           THEN /\ sent[j].cmd = "Query"
                /\ sent[j].IndexName = call.args.index
                /\ sent[j].Names[0] = sortKey
                /\ sent[j].Values[0] = SortValueOf(call)
         ELSE sent[j].cmd = "Scan"
    /\ outcome = "ok" => result.items = Flatten(AllItems(replies))

\* C20: fetchMany that resolves returns the stored records whose keys are in
\* the list, each once and nothing else, whatever the backend answered.
C20_FetchManyReturnsStored ==
  (call.op = "fetchMany" /\ outcome = "ok") =>
    LET wanted == {it \in table : ItemKey(it) \in Range(call.keys)}
    IN /\ Range(result.items) = wanted
       /\ Len(result.items) = Cardinality(wanted)

\* ------------------------------------------- claims about single operations
\* A key or record whose partition and sort fields hold a non-empty string or
\* a number.
ValidKeys(o) == IsStringOrNumberKey(o, partitionKey) /\ IsStringOrNumberKey(o, sortKey)
BareKey(o) == ValidKeys(o) /\ DOMAIN o = {partitionKey, sortKey}
Assignments(cmd) == {<<cmd.Names[i], cmd.Values[i]>> : i \in DOMAIN cmd.Names}
Assigned(cmd) == {cmd.Names[i] : i \in DOMAIN cmd.Names}

\* C21: fetchOne with a valid key does not fail; it returns null when no record
\* is stored under the key and the stored record when there is one.
C21_FetchOneReturnsStoredOrNull ==
  (call.op = "fetchOne" /\ BareKey(call.keys[1])) =>
    /\ outcome = "ok"
    /\ result = IF Lookup(table, call.keys[1]) = {} THEN NullResult
                ELSE RecordResult(StoredUnder(table, call.keys[1]))

\* C22: createOne of a valid record stores the record it returns, and a
\* fetchOne on the partition and sort values of a stored record returns the
\* stored record field for field; so a fetchOne that follows a createOne with
\* no write between them returns the created record, timestamps included.
C22_CreateThenFetchRoundTrip ==
  /\ (call.op = "createOne" /\ ValidKeys(call.records[1])) =>
       /\ outcome = "ok"
       /\ KeyPart(TheRecord(result)) = KeyPart(call.records[1])
       /\ Lookup(table, KeyPart(call.records[1])) = {TheRecord(result)}
  /\ (call.op = "fetchOne" /\ BareKey(call.keys[1]) /\ Lookup(table, call.keys[1]) # {}) =>
       /\ outcome = "ok"
       /\ Lookup(table, call.keys[1]) = {TheRecord(result)}

\* C23: the update of a patchOne whose keys were accepted has one placeholder
\* pair for each attribute of updates other than the partition and the sort
\* field and one for updatedAt, no two for one attribute, and none else.
C23_OnePlaceholderPerAttribute ==
  (call.op = "patchOne" /\ outcome # "validation_error") =>
    LET expected == (DOMAIN call.records[1] \ {partitionKey, sortKey}) \cup {"updatedAt"} IN
    /\ Len(sent) = 1 /\ sent[1].cmd = "Update"
    /\ DOMAIN sent[1].Names = DOMAIN sent[1].Values
    /\ Assigned(sent[1]) = expected
    /\ Cardinality(DOMAIN sent[1].Names) = Cardinality(expected)

\* C27: a patchOne whose keys were accepted and under which no record is
\* stored ends in an error, and no record is stored under the key afterwards.
C27_PatchOfMissingRecordFails ==
  [][(call'.op = "patchOne" /\ validateKeys(call'.keys[1]).ok
      /\ Lookup(table, KeyPart(call'.keys[1])) = {})
       => (outcome' = "backend_error" /\ Lookup(table', KeyPart(call'.keys[1])) = {})]_vars

\* C30: a patchMany of one request sends the update that patchOne sends for
\* the keys and updates of that request: the same key, the same assignments.
C30_PatchManyOfOneIsPatchOne ==
  (call.op = "patchMany" /\ Len(call.keys) = 1 /\ outcome # "validation_error") =>
    LET one == patchOneCommand(call.keys[1], call.records[1], clock).command IN
    /\ Len(sent) = 1
    /\ sent[1].Key = one.Key
    /\ Assignments(sent[1]) = Assignments(one)

\* -------------------------------------------------- claims about the loops
PagedReads == {"fetchAll", "createFetchAll"}

\* C25: the first page request carries no cursor, every later one carries the
\* cursor of the page received just before it, nothing is requested after a
\* page without a cursor, and the items returned are those of the pages in
\* the order the pages came.
C25_CursorsChainPages ==
  (call.op \in PagedReads) =>
    /\ Len(sent) >= 1 /\ Len(replies) = Len(sent)
    /\ sent[1].ExclusiveStartKey = Undefined
    /\ \A j \in 2..Len(sent) :
         /\ replies[j - 1].LastEvaluatedKey # Undefined
         /\ sent[j].ExclusiveStartKey = replies[j - 1].LastEvaluatedKey
    /\ outcome = "ok" =>
         /\ replies[Len(replies)].LastEvaluatedKey = Undefined
         /\ result.items = Flatten(AllItems(replies))

\* A read of as many pages as the backend may cut, each cursor another one,
\* with items on the first and on the last page.
C25_Witness ==
  /\ call.op \in PagedReads /\ outcome = "ok"
  /\ Len(sent) = MaxPages
  /\ sent[2].ExclusiveStartKey # sent[MaxPages].ExclusiveStartKey
  /\ replies[1].Items # <<>> /\ replies[MaxPages].Items # <<>>

\* C24: a createMany, deleteMany or fetchMany call has at most one batch
\* command in flight; the command of chunk k + 1 is sent only when that of
\* chunk k has been answered without an error, and the commands carry the
\* chunks of the input in the order given.
C24_OneBatchCommandInFlight ==
  \A id \in 1..MaxCalls :
    LET f == calls[id] IN
    f.call.op \in Chunked =>
      /\ Len(f.awaiting) <= 1
      /\ Len(f.sent) = Len(f.replies) + Len(f.awaiting)
      /\ \A k \in 1..(Len(f.sent) - 1) : ~f.replies[k].throws
      /\ \A k \in 1..Len(f.sent) : \A j \in 1..Len(f.sent[k].Requests) :
           NamedKey(f.sent[k], j) = InputKey(f.call, (k - 1) * LimitOf(f.call.op) + j)

\* The second chunk of a createMany is in flight, the first has been answered.
C24_Witness ==
  /\ calls[1].call.op = "createMany" /\ calls[1].pc = "awaiting"
  /\ Len(calls[1].sent) = 2 /\ Len(calls[1].replies) = 1
  /\ calls[1].awaiting = <<calls[1].sent[2]>>

\* C26: a paged read whose commands the backend accepts settles with a result;
\* until the page without a cursor has come it has no result, and its result
\* holds the items of every page up to that one.
Draining(f) ==
  IF f.call.op \in PagedReads /\ f.pc = "awaiting" THEN Accepted(f.sent[1]) ELSE FALSE
Drained(f) ==
  IF f.pc = "ok" /\ f.replies # <<>>
    THEN /\ f.replies[Len(f.replies)].LastEvaluatedKey = Undefined
         /\ f.result = ListResult(Flatten(AllItems(f.replies)))
  ELSE FALSE
C26_ReadsDrainBeforeReturning ==
  /\ [](calls[1].call.op \in PagedReads =>
          /\ calls[1].pc = "awaiting" => calls[1].result = NoResult
          /\ calls[1].pc = "ok" => Drained(calls[1]))
  /\ Draining(calls[1]) ~> Drained(calls[1])

\* A read that settled after as many pages as the backend may send, the
\* first of them empty.
C26_Witness ==
  /\ calls[1].call.op \in PagedReads /\ calls[1].pc = "ok"
  /\ Len(calls[1].replies) = MaxPages
  /\ EmptyPageWithCursor(calls[1].replies[1])
  /\ calls[1].result.items # <<>>

\* C29: whatever the interleaving of the running calls, each call sends the
\* commands that its own arguments, its own chunk list and the cursors of its
\* own pages give, its accumulator and its result hold the items of its own
\* answers and no others, and config.deps is as it was at construction.
OwnItems(f) == Flatten(AllItems(SelectSeq(f.replies, LAMBDA r : ~r.throws)))
C28_CallerObjectsUntouched ==
  (call.op \in {"createOne", "createMany", "replaceOne", "patchOne", "patchMany"}) =>
    held = Passed(call)

\* A patch that went through, whose updates named the partition field: the
\* command does not carry the field, the caller's updates object still does.
C28_Witness ==
  /\ call.op \in {"patchOne", "patchMany"} /\ outcome = "ok"
  /\ Has(call.records[1], partitionKey)
  /\ \A i \in DOMAIN sent[1].Names : sent[1].Names[i] # partitionKey
  /\ Has(held[2], partitionKey)

====
